---------------------------- MODULE Spec2Model ----------------------------
(***************************************************************************)
(* Weiler-Atherton polygon clipping (src/weiler_atherton.py) over the      *)
(* geometry kernel (src/geometry.py).                                      *)
(*                                                                         *)
(* Numbers.  The program computes in floating point and compares with the  *)
(* tolerance EPS = 1e-8.  The model computes in exact rational arithmetic: *)
(* a point is <<xn, yn, d>> and stands for (xn/d, yn/d), d > 0, reduced to *)
(* lowest terms.  Every comparison against EPS is made exactly (EPS is     *)
(* 1/EpsDen).  Ring vertices are integer points (d = 1).                   *)
(* Sequences are 1-based: Python index i is index i+1 here.                *)
(***************************************************************************)
EXTENDS Integers, Sequences, FiniteSets, TLC

\* ---------------------------------------------------------------- bounds
\* Ring vertices are drawn from the integer grid 0..MaxCoord x 0..MaxCoord.
MaxCoord == 3
\* Triangle vertices are drawn from the grid 0..MaxTri x 0..MaxTri.
MaxTri == 2
\* Degenerate rings take their points from the grid 0..MaxDeg x 0..MaxDeg.
MaxDeg == 1

\* ------------------------------------------------------ program constants
\* EPS = 1e-8 = 1 / EpsDen
EpsDen == 100000000
\* the relative probe offset norm * 1e-4 = norm / ProbeDen
ProbeDen == 10000
\* the safety cap of the tracing loop
SafetyCap == 100000

\* ------------------------------------------------------------ arithmetic
Abs(n) == IF n < 0 THEN -n ELSE n

Min2(a, b) == IF a <= b THEN a ELSE b

Max2(a, b) == IF a >= b THEN a ELSE b

RECURSIVE Gcd(_, _)
Gcd(a, b) == IF b = 0 THEN Abs(a) ELSE Gcd(b, a % Abs(b))

\* n/d <= EPS, for d > 0  (n * EpsDen <= d)
LeEps(n, d) == n <= d \div EpsDen

\* |n/d| <= EPS
AbsLeEps(n, d) == LeEps(Abs(n), d)

\* n/d < EPS, for d > 0  (n * EpsDen < d)
LtEps(n, d) == n <= (d - 1) \div EpsDen

\* |n/d| < EPS
AbsLtEps(n, d) == LtEps(Abs(n), d)

\* The point (xn/d, yn/d) in lowest terms with a positive denominator.
Pt(xn, yn, d) ==
    LET g == Gcd(Gcd(xn, yn), d)
        s == IF d < 0 THEN -1 ELSE 1
    IN  <<(s * xn) \div g, (s * yn) \div g, (s * d) \div g>>

IntPt(x, y) == <<x, y, 1>>

\* A rational number n/d in lowest terms, d > 0 (used for alpha).
Rat(n, d) ==
    LET g == Gcd(n, d)
        s == IF d < 0 THEN -1 ELSE 1
    IN  <<(s * n) \div g, (s * d) \div g>>

RatLess(a, b) == a[1] * b[2] < b[1] * a[2]

RatMin(a, b) == IF RatLess(b, a) THEN b ELSE a

\* ------------------------------------------------------ geometry kernel
\* signed_area: the shoelace sum; twice the area, as a numerator over d*d
\* for a ring of integer points it is the integer 2 * area.
RECURSIVE ShoelaceFrom(_, _)
ShoelaceFrom(pts, i) ==
    IF i > Len(pts) THEN 0
    ELSE LET p == pts[i]
             q == pts[(i % Len(pts)) + 1]
         IN  (p[1] * q[2] - q[1] * p[2]) + ShoelaceFrom(pts, i + 1)

\* signed_area(pts) * 2, for integer points
signed_area2(pts) == ShoelaceFrom(pts, 1)

is_ccw(pts) == signed_area2(pts) > 0

\* point_eq: hypot(a - b) <= EPS.  With D = a.d * b.d the common
\* denominator, hypot <= EPS iff nx^2 + ny^2 <= (D / EpsDen)^2.
point_eq(a, b) ==
    LET nx == a[1] * b[3] - b[1] * a[3]
        ny == a[2] * b[3] - b[2] * a[3]
        k  == (a[3] * b[3]) \div EpsDen
    IN  nx * nx + ny * ny <= k * k

\* orient(a, b, c) = (b-a) x (c-a), for integer points a, b and a rational
\* point c: the numerator over the denominator c.d.
orientNum(a, b, c) ==
    (b[1] - a[1]) * (c[2] - a[2] * c[3]) - (b[2] - a[2]) * (c[1] - a[1] * c[3])

\* on_segment(a, b, p), a and b integer points, p rational
on_segment(a, b, p) ==
    IF ~AbsLeEps(orientNum(a, b, p), p[3]) THEN FALSE
    ELSE /\ LeEps(Min2(a[1], b[1]) * p[3] - p[1], p[3])
         /\ LeEps(p[1] - Max2(a[1], b[1]) * p[3], p[3])
         /\ LeEps(Min2(a[2], b[2]) * p[3] - p[2], p[3])
         /\ LeEps(p[2] - Max2(a[2], b[2]) * p[3], p[3])

NoPoint == <<>>

\* seg_intersection(a, b, c, d) for integer points; NoPoint is None.
seg_intersection(a, b, c, d) ==
    LET x1 == a[1]  y1 == a[2]
        x2 == b[1]  y2 == b[2]
        x3 == c[1]  y3 == c[2]
        x4 == d[1]  y4 == d[2]
        denom == (x1 - x2) * (y3 - y4) - (y1 - y2) * (x3 - x4)
    IN  IF AbsLtEps(denom, 1)
        THEN IF on_segment(c, d, a) THEN a
             ELSE IF on_segment(c, d, b) THEN b
             ELSE IF on_segment(a, b, c) THEN c
             ELSE IF on_segment(a, b, d) THEN d
             ELSE NoPoint
        ELSE LET pxn == (x1 * y2 - y1 * x2) * (x3 - x4) - (x1 - x2) * (x3 * y4 - y3 * x4)
                 pyn == (x1 * y2 - y1 * x2) * (y3 - y4) - (y1 - y2) * (x3 * y4 - y3 * x4)
                 p   == Pt(pxn, pyn, denom)
                 D   == p[3]
             IN  IF /\ LeEps(Min2(x1, x2) * D - p[1], D)
                    /\ LeEps(p[1] - Max2(x1, x2) * D, D)
                    /\ LeEps(Min2(y1, y2) * D - p[2], D)
                    /\ LeEps(p[2] - Max2(y1, y2) * D, D)
                    /\ LeEps(Min2(x3, x4) * D - p[1], D)
                    /\ LeEps(p[1] - Max2(x3, x4) * D, D)
                    /\ LeEps(Min2(y3, y4) * D - p[2], D)
                    /\ LeEps(p[2] - Max2(y3, y4) * D, D)
                 THEN p
                 ELSE NoPoint

\* One edge of the ray-casting loop of point_in_ring: does the edge from
\* (x1,y1) to (x2,y2) count as a crossing of the ray from pt to the right?
\*   (y1 > y) != (y2 > y)  and  (x2-x1)*(y-y1)/(y2-y1) + x1 > x
\* multiplied through by D * (y2 - y1), whose sign decides the direction.
RayCrosses(pt, e1, e2) ==
    LET D  == pt[3]
        x1 == e1[1]  y1 == e1[2]
        x2 == e2[1]  y2 == e2[2]
        up1 == y1 * D > pt[2]
        up2 == y2 * D > pt[2]
        lhs == (x2 - x1) * (pt[2] - y1 * D) + x1 * D * (y2 - y1)
        rhs == pt[1] * (y2 - y1)
    IN  /\ up1 # up2
        /\ IF y2 > y1 THEN lhs > rhs ELSE lhs < rhs

\* point_in_ring: TRUE at once when pt lies on an edge, else the parity of
\* the crossings counted over all edges.
RECURSIVE RingParityFrom(_, _, _, _)
RingParityFrom(pt, ring, i, inside) ==
    IF i > Len(ring) THEN inside
    ELSE LET e1 == ring[i]
             e2 == ring[(i % Len(ring)) + 1]
         IN  IF on_segment(e1, e2, pt) THEN TRUE
             ELSE RingParityFrom(pt, ring, i + 1,
                                 IF RayCrosses(pt, e1, e2) THEN ~inside ELSE inside)

point_in_ring(pt, ring) == RingParityFrom(pt, ring, 1, FALSE)

\* point_in_polygon_with_holes(pt, poly): rings is poly.rings
point_in_polygon_with_holes(pt, rings) ==
    IF Len(rings) = 0 THEN FALSE
    ELSE IF ~point_in_ring(pt, rings[1]) THEN FALSE
    ELSE \A h \in 2..Len(rings) : ~point_in_ring(pt, rings[h])

\* ------------------------------------------------------------ node graph
None == <<>>

\* Node.__init__
Node(pt, is_inter, alpha, edge) ==
    [pt |-> pt, is_inter |-> is_inter, alpha |-> alpha, edge |-> edge,
     neighbor |-> None, visited |-> FALSE, is_entry |-> "None"]

\* build_vertex_lists(poly): one Node per vertex, edge = (ring, i, i+1 mod n)
build_vertex_lists(rings) ==
    [r \in 1..Len(rings) |->
        [i \in 1..Len(rings[r]) |->
            Node(rings[r][i], FALSE, None, <<r, i, (i % Len(rings[r])) + 1>>)]]

\* calc_alpha(p, u, v): the clamped projection parameter of p on edge u->v
calc_alpha(p, u, v) ==
    LET dx == v[1] - u[1]
        dy == v[2] - u[2]
        denom == dx * dx + dy * dy
        tn == (p[1] - u[1] * p[3]) * dx + (p[2] - u[2] * p[3]) * dy
        td == p[3] * denom
    IN  IF LtEps(denom, 1) THEN <<0, 1>>
        ELSE IF tn < 0 THEN <<0, 1>>
        ELSE IF tn > td THEN <<1, 1>>
        ELSE Rat(tn, td)

\* The edges the double loop of insert_intersections visits, in its order:
\* rings with fewer than 2 points are skipped.
RECURSIVE RingEdgesFrom(_, _, _)
RingEdgesFrom(r, n, i) ==
    IF i > n THEN <<>>
    ELSE <<<<r, i, (i % n) + 1>>>> \o RingEdgesFrom(r, n, i + 1)

RECURSIVE EdgesFrom(_, _)
EdgesFrom(rings, r) ==
    IF r > Len(rings) THEN <<>>
    ELSE (IF Len(rings[r]) < 2 THEN <<>>
          ELSE RingEdgesFrom(r, Len(rings[r]), 1)) \o EdgesFrom(rings, r + 1)

EdgesOf(rings) == EdgesFrom(rings, 1)

\* The record appended for subject edge se and clipper edge ce, or <<>>.
EdgePairRecord(srings, crings, se, ce) ==
    LET a == srings[se[1]][se[2]]
        b == srings[se[1]][se[3]]
        c == crings[ce[1]][ce[2]]
        d == crings[ce[1]][ce[3]]
        ip == seg_intersection(a, b, c, d)
    IN  IF ip = NoPoint THEN <<>>
        ELSE <<[pt |-> ip,
                subj_edge |-> se, subj_alpha |-> calc_alpha(ip, a, b),
                clip_edge |-> ce, clip_alpha |-> calc_alpha(ip, c, d)]>>

RECURSIVE RecordsFrom(_, _, _, _, _)
RecordsFrom(srings, crings, ses, ces, t) ==
    IF t > Len(ses) * Len(ces) THEN <<>>
    ELSE LET se == ses[((t - 1) \div Len(ces)) + 1]
             ce == ces[((t - 1) % Len(ces)) + 1]
         IN  EdgePairRecord(srings, crings, se, ce)
                \o RecordsFrom(srings, crings, ses, ces, t + 1)

\* inter_records as first collected (one per intersecting edge pair)
RawRecords(srings, crings) ==
    LET ses == EdgesOf(srings)
        ces == EdgesOf(crings)
    IN  IF Len(ces) = 0 THEN <<>> ELSE RecordsFrom(srings, crings, ses, ces, 1)

\* One step of the deduplication loop: merge rec into the first unique
\* record at an eps-equal point (keeping the minimum alphas and the first
\* record's edges), or append it.
MergeRecord(unique, rec) ==
    LET hits == {j \in 1..Len(unique) : point_eq(unique[j].pt, rec.pt)}
    IN  IF hits = {} THEN Append(unique, rec)
        ELSE LET j == CHOOSE h \in hits : \A g \in hits : h <= g
             IN  [unique EXCEPT
                    ![j].subj_alpha = RatMin(unique[j].subj_alpha, rec.subj_alpha),
                    ![j].clip_alpha = RatMin(unique[j].clip_alpha, rec.clip_alpha)]

RECURSIVE DedupFrom(_, _, _)
DedupFrom(recs, i, unique) ==
    IF i > Len(recs) THEN unique
    ELSE DedupFrom(recs, i + 1, MergeRecord(unique, recs[i]))

UniqueRecords(srings, crings) == DedupFrom(RawRecords(srings, crings), 1, <<>>)

RecEdge(rec, key) == IF key = "subj" THEN rec.subj_edge ELSE rec.clip_edge

RecAlpha(rec, key) == IF key = "subj" THEN rec.subj_alpha ELSE rec.clip_alpha

\* The keys of `grouped`, in insertion order (first occurrence of each edge)
RECURSIVE GroupKeysFrom(_, _, _, _)
GroupKeysFrom(recs, key, i, keys) ==
    IF i > Len(recs) THEN keys
    ELSE LET e == RecEdge(recs[i], key)
         IN  GroupKeysFrom(recs, key, i + 1,
                IF \E k \in 1..Len(keys) : keys[k] = e THEN keys ELSE Append(keys, e))

\* sort key (alpha, x, y), compared as Python compares tuples
SortKeyLess(r1, r2, key) ==
    LET a1 == RecAlpha(r1, key)
        a2 == RecAlpha(r2, key)
        p1 == r1.pt
        p2 == r2.pt
        x1 == p1[1] * p2[3]
        x2 == p2[1] * p1[3]
        y1 == p1[2] * p2[3]
        y2 == p2[2] * p1[3]
    IN  \/ RatLess(a1, a2)
        \/ a1 = a2 /\ x1 < x2
        \/ a1 = a2 /\ x1 = x2 /\ y1 < y2

\* sorted(recs, key=...): a stable insertion sort
RECURSIVE InsertSorted(_, _, _)
InsertSorted(sorted, rec, key) ==
    IF Len(sorted) = 0 THEN <<rec>>
    ELSE IF SortKeyLess(rec, sorted[Len(sorted)], key)
         THEN Append(InsertSorted(SubSeq(sorted, 1, Len(sorted) - 1), rec, key),
                     sorted[Len(sorted)])
         ELSE Append(sorted, rec)

RECURSIVE SortFrom(_, _, _, _)
SortFrom(recs, key, i, sorted) ==
    IF i > Len(recs) THEN sorted
    ELSE SortFrom(recs, key, i + 1, InsertSorted(sorted, recs[i], key))

InsertAt(seq, after, x) ==
    SubSeq(seq, 1, after) \o <<x>> \o SubSeq(seq, after + 1, Len(seq))

\* The loop `for rec in recs_sorted` of insert_into on one ring's node list;
\* after is the number of nodes in front of the insertion position.
RECURSIVE InsertRecs(_, _, _, _, _, _)
InsertRecs(nodes, recs, key, edge, i, after) ==
    IF i > Len(recs) THEN nodes
    ELSE LET pt == recs[i].pt
             alpha == RecAlpha(recs[i], key)
             found == {k \in 1..Len(nodes) :
                          nodes[k].is_inter /\ point_eq(nodes[k].pt, pt)}
         IN  IF found # {}
             THEN LET k == CHOOSE h \in found : \A g \in found : h <= g
                      upd == IF nodes[k].alpha = None \/ RatLess(alpha, nodes[k].alpha)
                             THEN [nodes EXCEPT ![k].alpha = alpha, ![k].edge = edge]
                             ELSE nodes
                  IN  InsertRecs(upd, recs, key, edge, i + 1, after)
             ELSE InsertRecs(InsertAt(nodes, after, Node(pt, TRUE, alpha, edge)),
                             recs, key, edge, i + 1, after + 1)

\* The body of `for edge, recs in grouped.items()`
InsertGroup(poly_nodes, recs, key, edge) ==
    LET nodes == poly_nodes[edge[1]]
        mine == SelectSeq(recs, LAMBDA r : RecEdge(r, key) = edge)
        starts == {k \in 1..Len(nodes) : ~nodes[k].is_inter /\ nodes[k].edge[2] = edge[2]}
        after == IF starts = {} THEN Len(nodes)
                 ELSE CHOOSE h \in starts : \A g \in starts : h <= g
        sorted == SortFrom(mine, key, 1, <<>>)
    IN  [poly_nodes EXCEPT ![edge[1]] = InsertRecs(nodes, sorted, key, edge, 1, after)]

RECURSIVE InsertGroupsFrom(_, _, _, _, _)
InsertGroupsFrom(poly_nodes, recs, key, keys, i) ==
    IF i > Len(keys) THEN poly_nodes
    ELSE InsertGroupsFrom(InsertGroup(poly_nodes, recs, key, keys[i]),
                          recs, key, keys, i + 1)

\* insert_into(poly_nodes, key_prefix)
insert_into(poly_nodes, recs, key) ==
    InsertGroupsFrom(poly_nodes, recs, key, GroupKeysFrom(recs, key, 1, <<>>), 1)

\* find_inter_node(poly_nodes, pt): the position <<ring, index>> of the
\* first intersection node at pt, or None
RECURSIVE FindInterFrom(_, _, _, _)
FindInterFrom(poly_nodes, pt, r, i) ==
    IF r > Len(poly_nodes) THEN None
    ELSE IF i > Len(poly_nodes[r]) THEN FindInterFrom(poly_nodes, pt, r + 1, 1)
    ELSE IF poly_nodes[r][i].is_inter /\ point_eq(poly_nodes[r][i].pt, pt)
         THEN <<r, i>>
         ELSE FindInterFrom(poly_nodes, pt, r, i + 1)

find_inter_node(poly_nodes, pt) == FindInterFrom(poly_nodes, pt, 1, 1)

\* Mutant of LinkFrom: only the subject node's neighbor is set
RECURSIVE LinkFrom_OneWay(_, _, _)
LinkFrom_OneWay(g, recs, i) ==
    IF i > Len(recs) THEN g
    ELSE LET node_s == find_inter_node(g.subj, recs[i].pt)
             node_c == find_inter_node(g.clip, recs[i].pt)
         IN  IF node_s = None \/ node_c = None THEN LinkFrom_OneWay(g, recs, i + 1)
             ELSE LinkFrom_OneWay(
                    [subj |-> [g.subj EXCEPT ![node_s[1]][node_s[2]].neighbor = node_c],
                     clip |-> g.clip],
                    recs, i + 1)

\* The linking loop: a node's neighbor is the position of its peer in the
\* other graph.  g is [subj |-> subj_nodes, clip |-> clip_nodes].
RECURSIVE LinkFrom(_, _, _)
LinkFrom(g, recs, i) ==
    IF i > Len(recs) THEN g
    ELSE LET node_s == find_inter_node(g.subj, recs[i].pt)
             node_c == find_inter_node(g.clip, recs[i].pt)
         IN  IF node_s = None \/ node_c = None THEN LinkFrom(g, recs, i + 1)
             ELSE LinkFrom(
                    [subj |-> [g.subj EXCEPT ![node_s[1]][node_s[2]].neighbor = node_c],
                     clip |-> [g.clip EXCEPT ![node_c[1]][node_c[2]].neighbor = node_s]],
                    recs, i + 1)

\* insert_intersections(subject, clipper)
insert_intersections(srings, crings) ==
    LET recs == UniqueRecords(srings, crings)
    IN  LinkFrom([subj |-> insert_into(build_vertex_lists(srings), recs, "subj"),
                  clip |-> insert_into(build_vertex_lists(crings), recs, "clip")],
                 recs, 1)

\* ------------------------------------------------------- classification
\* The forward, then backward, search of mark_entry_exit for a node of the
\* ring at a point different from nodes[i].pt; 0 when there is none.
NextDistinct(nodes, i) ==
    LET n == Len(nodes)
        at(k) == ((i - 1 + k) % n) + 1
        back(k) == ((i - 1 - k + n) % n) + 1
        fw == {k \in 1..(n - 1) : ~point_eq(nodes[at(k)].pt, nodes[i].pt)}
        bw == {k \in 1..(n - 1) : ~point_eq(nodes[back(k)].pt, nodes[i].pt)}
    IN  IF fw # {} THEN at(CHOOSE k \in fw : \A h \in fw : k <= h)
        ELSE IF bw # {} THEN back(CHOOSE k \in bw : \A h \in bw : k <= h)
        ELSE 0

\* The probe point of mark_entry_exit for a node at pt whose next distinct
\* node is at nxt.  (dx, dy) = (nx/D, ny/D), norm^2 = (nx^2 + ny^2) / D^2.
\*   norm < EPS            : probe = pt + (100 * EPS, 0)
\*   norm * 1e-4 >= 10*EPS : probe = pt + (dx, dy) * 1e-4
\*   otherwise             : probe = pt + (dx, dy) / norm * 10 * EPS, which
\*     is irrational; it has the direction of the relative probe, which
\*     stands for it here (no two distinct points of the bounded grid are
\*     closer than 1e-3, so this case is not reached).
ProbePoint(pt, nxt) ==
    LET D  == pt[3] * nxt[3]
        nx == nxt[1] * pt[3] - pt[1] * nxt[3]
        ny == nxt[2] * pt[3] - pt[2] * nxt[3]
        s  == nx * nx + ny * ny
        k  == D \div EpsDen
        normLtEps == IF D % EpsDen = 0 THEN s < k * k ELSE s <= k * k
    IN  IF normLtEps
        THEN <<pt[1] * (EpsDen \div 100) + pt[3], pt[2] * (EpsDen \div 100),
               pt[3] * (EpsDen \div 100)>>
        ELSE <<pt[1] * nxt[3] * ProbeDen + nx, pt[2] * nxt[3] * ProbeDen + ny,
               D * ProbeDen>>

\* Mutant of MarkNode: the cross-linked node gets the same flag (the `not`
\* is missing)
MarkNode_SameFlag(g, crings, r, i) ==
    LET nodes == g.subj[r]
        node == nodes[i]
        next_idx == NextDistinct(nodes, i)
    IN  IF ~node.is_inter \/ node.is_entry # "None" \/ next_idx = 0 THEN g
        ELSE LET probe == ProbePoint(node.pt, nodes[next_idx].pt)
                 inside == point_in_polygon_with_holes(probe, crings)
                 flag == IF inside THEN "True" ELSE "False"
                 nb == node.neighbor
             IN  [subj |-> [g.subj EXCEPT ![r][i].is_entry = flag],
                  clip |-> IF nb = None THEN g.clip
                           ELSE [g.clip EXCEPT ![nb[1]][nb[2]].is_entry = flag]]

\* The body of the inner loop of mark_entry_exit for subject node <<r, i>>
MarkNode(g, crings, r, i) ==
    LET nodes == g.subj[r]
        node == nodes[i]
        next_idx == NextDistinct(nodes, i)
    IN  IF ~node.is_inter \/ node.is_entry # "None" \/ next_idx = 0 THEN g
        ELSE LET probe == ProbePoint(node.pt, nodes[next_idx].pt)
                 inside == point_in_polygon_with_holes(probe, crings)
                 subj2 == [g.subj EXCEPT ![r][i].is_entry =
                              IF inside THEN "True" ELSE "False"]
                 nb == node.neighbor
             IN  [subj |-> subj2,
                  clip |-> IF nb = None THEN g.clip
                           ELSE [g.clip EXCEPT ![nb[1]][nb[2]].is_entry =
                                    IF inside THEN "False" ELSE "True"]]

RECURSIVE MarkFrom(_, _, _, _)
MarkFrom(g, crings, r, i) ==
    IF r > Len(g.subj) THEN g
    ELSE IF i > Len(g.subj[r]) THEN MarkFrom(g, crings, r + 1, 1)
    ELSE MarkFrom(MarkNode(g, crings, r, i), crings, r, i + 1)

\* mark_entry_exit(subj_nodes, clip_nodes, subject, clipper)
mark_entry_exit(g, crings) == MarkFrom(g, crings, 1, 1)

\* ----------------------------------------------------------------- tracer
\* inter_nodes: the positions of the subject graph's intersection nodes
RECURSIVE InterNodesFrom(_, _, _)
InterNodesFrom(nodes, r, i) ==
    IF r > Len(nodes) THEN <<>>
    ELSE IF i > Len(nodes[r]) THEN InterNodesFrom(nodes, r + 1, 1)
    ELSE (IF nodes[r][i].is_inter THEN <<<<r, i>>>> ELSE <<>>)
            \o InterNodesFrom(nodes, r, i + 1)

InterNodes(nodes) == InterNodesFrom(nodes, 1, 1)

\* has_inter of weiler_atherton_clip
has_inter(nodes) == \E r \in 1..Len(nodes) : \E i \in 1..Len(nodes[r]) : nodes[r][i].is_inter

OtherSide(side) == IF side = "subj" THEN "clip" ELSE "subj"

\* The inner `while True` walk along one ring from index i_idx: the points
\* appended and the index j at which it stopped; hit tells whether it
\* stopped at an intersection node (else it came back to i_idx).
RECURSIVE WalkFrom(_, _, _, _)
WalkFrom(nodes, i_idx, j0, pts) ==
    LET j == (j0 % Len(nodes)) + 1
        node == nodes[j]
        pts2 == IF ~point_eq(pts[Len(pts)], node.pt) THEN Append(pts, node.pt) ELSE pts
    IN  IF node.is_inter THEN [pts |-> pts2, j |-> j, hit |-> TRUE]
        ELSE IF j = i_idx THEN [pts |-> pts2, j |-> j, hit |-> FALSE]
        ELSE WalkFrom(nodes, i_idx, j, pts2)

\* The cleaning loop: drop a point eps-equal to the one kept before it
RECURSIVE CleanFrom(_, _, _)
CleanFrom(pts, i, cleaned) ==
    IF i > Len(pts) THEN cleaned
    ELSE CleanFrom(pts, i + 1,
            IF Len(cleaned) = 0 \/ ~point_eq(cleaned[Len(cleaned)], pts[i])
            THEN Append(cleaned, pts[i]) ELSE cleaned)

\* ----------------------------------------------------------------- inputs
\* A polygon is [none |-> BOOLEAN, rings |-> sequence of rings]; none marks
\* the Python value None passed for a PolygonModel.
Poly(rings) == [none |-> FALSE, rings |-> rings]

NonePoly == [none |-> TRUE, rings |-> <<>>]

Coords == 0..MaxCoord

\* The axis-aligned rectangle [x0,x1] x [y0,y1], counter-clockwise
Rect(x0, y0, x1, y1) == <<IntPt(x0, y0), IntPt(x1, y0), IntPt(x1, y1), IntPt(x0, y1)>>

Rects ==
    UNION {{Rect(c[1], c[2], x1, y1) : x1 \in (c[1] + 1)..MaxCoord, y1 \in (c[2] + 1)..MaxCoord}
              : c \in Coords \X Coords}

RectPolys == {Poly(<<r>>) : r \in Rects}

\* A square with a square hole (outer counter-clockwise, hole clockwise)
HolePoly ==
    Poly(<<Rect(0, 0, MaxCoord, MaxCoord),
           <<IntPt(1, 1), IntPt(1, MaxCoord - 1), IntPt(MaxCoord - 1, MaxCoord - 1),
             IntPt(MaxCoord - 1, 1)>>>>)

\* Triangles: counter-clockwise, with one vertex at the origin and the
\* other two on the grid 0..MaxTri x 0..MaxTri; and their mirror images
\* through the centre of that grid.
TriPts == {IntPt(x, y) : x \in 0..MaxTri, y \in 0..MaxTri}

Tris == {t \in {<<IntPt(0, 0), p, q>> : p \in TriPts, q \in TriPts} : is_ccw(t)}

Mirror(ring) == [i \in 1..Len(ring) |-> IntPt(MaxTri - ring[i][1], MaxTri - ring[i][2])]

TriPolys == {Poly(<<t>>) : t \in Tris}

MirrorTriPolys == {Poly(<<Mirror(t)>>) : t \in Tris}

\* Degenerate rings: no point, one point, two points (equal or not), and
\* three equal points, over the grid 0..MaxDeg x 0..MaxDeg.
DegPts == {IntPt(x, y) : x \in 0..MaxDeg, y \in 0..MaxDeg}

DegRings ==
    {<<>>} \cup {<<p>> : p \in DegPts} \cup {<<p, q>> : p \in DegPts, q \in DegPts}
           \cup {<<p, p, p>> : p \in DegPts}

\* None, the polygon without rings, the degenerate rings, and three
\* well-formed polygons to meet them.
SpecialPolys ==
    {NonePoly, Poly(<<>>), HolePoly,
     Poly(<<Rect(0, 0, MaxCoord, MaxCoord)>>), Poly(<<Rect(1, 1, 2, 2)>>)}
        \cup {Poly(<<r>>) : r \in DegRings}

\* The calls weiler_atherton_clip(subject, clipper) the model makes
InputPairs ==
    ((RectPolys \cup {HolePoly}) \X (RectPolys \cup {HolePoly}))
        \cup (TriPolys \X MirrorTriPolys)
        \cup (SpecialPolys \X SpecialPolys)

VARIABLES
    subject,        \* the subject argument
    clipper,        \* the clipper argument
    pc,             \* the position in weiler_atherton_clip
    subj_nodes,     \* the subject graph: per ring, its node list
    clip_nodes,     \* the clipper graph
    results,        \* the list of result rings
    seed,           \* index into inter_nodes of the for loop's start_node
    current,        \* the node `current`: <<graph, ring, index>>
    current_side,   \* 'subj' or 'clip'
    polygon_pts,    \* the running point sequence of the trace
    safety,         \* the safety counter of the trace
    raised,         \* an exception left the call
    walks,          \* history: ring walks made by the current trace
    switches,       \* history: changes of current_side in the current trace
    stop_reason,    \* history: why the last trace left its loop
    arrivals,       \* history: the intersection nodes at which walks ended
                    \* and switched sides, in order, over all traces
    polygons,               \* CanvasWidget.polygons
    current_rings,          \* CanvasWidget.current_rings
    current_ring_points,    \* CanvasWidget.current_ring_points
    clip_result_polygons,   \* CanvasWidget.clip_result_polygons
    handler,        \* history: the handler that ran last
    ret,            \* history: what it returned ("True", "False", "None") or "raised"
    clip_args,      \* history: the arguments it passed to weiler_atherton_clip
    clicks          \* history: the number of left clicks so far

vars == <<subject, clipper, pc, subj_nodes, clip_nodes, results, seed, current,
          current_side, polygon_pts, safety, raised, walks, switches, stop_reason,
          arrivals, polygons, current_rings, current_ring_points, clip_result_polygons,
          handler, ret, clip_args, clicks>>

\* The state of the window: the canvas and the history of its handlers
guiVars == <<polygons, current_rings, current_ring_points, clip_result_polygons,
             handler, ret, clip_args, clicks>>

\* The state of one call of weiler_atherton_clip
coreVars == <<subject, clipper, pc, subj_nodes, clip_nodes, results, seed, current,
              current_side, polygon_pts, safety, raised, walks, switches, stop_reason,
              arrivals>>

traceVars == <<current, current_side, polygon_pts, safety, walks, switches, stop_reason,
               arrivals>>

Init ==
    /\ \E pair \in InputPairs : subject = pair[1] /\ clipper = pair[2]
    /\ pc = "call"
    /\ subj_nodes = <<>>
    /\ clip_nodes = <<>>
    /\ results = <<>>
    /\ seed = 0
    /\ current = None
    /\ current_side = "subj"
    /\ polygon_pts = <<>>
    /\ safety = 0
    /\ raised = FALSE
    /\ walks = 0
    /\ switches = 0
    /\ stop_reason = "none"
    /\ arrivals = <<>>
    /\ polygons = <<>>
    /\ current_rings = <<>>
    /\ current_ring_points = <<>>
    /\ clip_result_polygons = <<>>
    /\ handler = "none"
    /\ ret = "None"
    /\ clip_args = None
    /\ clicks = 0

\* Mutant of NoneCheck: `and` written for `or`
NoneCheck_Both(s, c) == s.none /\ c.none

\* `subject is None or clipper is None`
NoneCheck(s, c) == s.none \/ c.none

\* weiler_atherton_clip, the guard on None operands: return []
ReturnNone ==
    /\ UNCHANGED guiVars
    /\ pc = "call"
    /\ NoneCheck(subject, clipper)
    /\ results' = <<>>
    /\ pc' = "done"
    /\ UNCHANGED <<subject, clipper, subj_nodes, clip_nodes, seed, raised>>
    /\ UNCHANGED traceVars

\* subj_nodes, clip_nodes = insert_intersections(subject, clipper); reading
\* .rings of None raises AttributeError.
InsertIntersections ==
    /\ UNCHANGED guiVars
    /\ pc = "call"
    /\ ~NoneCheck(subject, clipper)
    /\ IF subject.none \/ clipper.none
       THEN /\ raised' = TRUE
            /\ pc' = "raised"
            /\ UNCHANGED <<subj_nodes, clip_nodes>>
       ELSE \E g \in {insert_intersections(subject.rings, clipper.rings)} :
                /\ subj_nodes' = g.subj
                /\ clip_nodes' = g.clip
                /\ pc' = "inserted"
                /\ UNCHANGED raised
    /\ UNCHANGED <<subject, clipper, results, seed>>
    /\ UNCHANGED traceVars

\* Mutant of FallbackResult: the clipper's vertex is tested first
FallbackResult_ClipperFirst(srings, crings) ==
    IF /\ Len(crings) > 0
       /\ Len(crings[1]) > 0
       /\ point_in_polygon_with_holes(crings[1][1], srings)
    THEN crings
    ELSE IF /\ Len(srings) > 0
            /\ Len(srings[1]) > 0
            /\ point_in_polygon_with_holes(srings[1][1], crings)
    THEN srings
    ELSE <<>>

\* The result of the `if not has_inter` block
FallbackResult(srings, crings) ==
    IF /\ Len(srings) > 0
       /\ Len(srings[1]) > 0
       /\ point_in_polygon_with_holes(srings[1][1], crings)
    THEN srings
    ELSE IF /\ Len(crings) > 0
            /\ Len(crings[1]) > 0
            /\ point_in_polygon_with_holes(crings[1][1], srings)
    THEN crings
    ELSE <<>>

\* No intersection node on the subject graph: decide by containment
Fallback ==
    /\ UNCHANGED guiVars
    /\ pc = "inserted"
    /\ ~has_inter(subj_nodes)
    /\ results' = FallbackResult(subject.rings, clipper.rings)
    /\ pc' = "done"
    /\ UNCHANGED <<subject, clipper, subj_nodes, clip_nodes, seed, raised>>
    /\ UNCHANGED traceVars

\* mark_entry_exit(...), then build_results_from_nodes up to its for loop
MarkEntryExit ==
    /\ UNCHANGED guiVars
    /\ pc = "inserted"
    /\ has_inter(subj_nodes)
    /\ \E g \in {mark_entry_exit([subj |-> subj_nodes, clip |-> clip_nodes], clipper.rings)} :
           /\ subj_nodes' = g.subj
           /\ clip_nodes' = g.clip
    /\ results' = <<>>
    /\ seed' = 1
    /\ pc' = "seed"
    /\ UNCHANGED <<subject, clipper, raised>>
    /\ UNCHANGED traceVars

\* The node a reference <<graph, ring, index>> denotes
NodeAt(sn, cn, ref) == IF ref[1] = "subj" THEN sn[ref[2]][ref[3]] ELSE cn[ref[2]][ref[3]]

\* start_node of the current for-loop iteration
StartRef == LET pos == InterNodes(subj_nodes)[seed] IN <<"subj", pos[1], pos[2]>>

\* The side on which a trace starts
StartSide(start_node) == IF start_node.is_entry = "True" THEN "subj" ELSE "clip"

\* for start_node in inter_nodes: a visited start_node is passed over, an
\* isolated one is marked visited and passed over
SeedSkip ==
    /\ UNCHANGED guiVars
    /\ pc = "seed"
    /\ seed <= Len(InterNodes(subj_nodes))
    /\ LET start_node == NodeAt(subj_nodes, clip_nodes, StartRef)
       IN  /\ start_node.visited \/ start_node.neighbor = None
           /\ subj_nodes' = IF start_node.visited THEN subj_nodes
                            ELSE [subj_nodes EXCEPT ![StartRef[2]][StartRef[3]].visited = TRUE]
    /\ seed' = seed + 1
    /\ UNCHANGED <<subject, clipper, pc, clip_nodes, results, raised>>
    /\ UNCHANGED traceVars

\* ... otherwise a trace starts at it
SeedStart ==
    /\ UNCHANGED guiVars
    /\ pc = "seed"
    /\ seed <= Len(InterNodes(subj_nodes))
    /\ LET start_node == NodeAt(subj_nodes, clip_nodes, StartRef)
       IN  /\ ~start_node.visited
           /\ start_node.neighbor # None
           /\ current' = StartRef
           /\ current_side' = StartSide(start_node)
           /\ polygon_pts' = <<start_node.pt>>
    /\ safety' = 0
    /\ walks' = 0
    /\ switches' = 0
    /\ stop_reason' = "none"
    /\ pc' = "trace"
    /\ UNCHANGED <<subject, clipper, subj_nodes, clip_nodes, results, seed, raised, arrivals>>

\* find_idx(node, nodes_struct): the node is found only in its own graph
find_idx(ref, side) == IF ref[1] = side THEN <<ref[2], ref[3]>> ELSE None

\* Mutant of Closes: only the return to the seed node closes the ring
Closes_SeedOnly(pts, cur, cur_visited) == cur = StartRef /\ cur_visited

\* The closing test after a walk, on the new polygon_pts and current
Closes(pts, cur, cur_visited) ==
    \/ point_eq(pts[1], pts[Len(pts)])
    \/ (cur = StartRef /\ cur_visited)

\* Mutant of ClosedPts: the duplicated closing point is kept
ClosedPts_KeepLast(pts) == pts

\* polygon_pts after the closing test succeeded
ClosedPts(pts) ==
    IF Len(pts) >= 2 /\ point_eq(pts[1], pts[Len(pts)])
    THEN SubSeq(pts, 1, Len(pts) - 1) ELSE pts

\* One iteration of the outer `while True` of a trace
TraceIter ==
    /\ UNCHANGED guiVars
    /\ pc = "trace"
    /\ safety' = safety + 1
    /\ IF safety + 1 > SafetyCap
       THEN /\ pc' = "clean"
            /\ stop_reason' = "safety"
            /\ UNCHANGED <<subj_nodes, clip_nodes, current, current_side,
                           polygon_pts, walks, switches, arrivals>>
       ELSE LET pos == find_idx(current, current_side)
            IN  IF pos = None
                THEN /\ current_side' = OtherSide(current_side)
                     /\ switches' = switches + 1
                     /\ UNCHANGED <<pc, subj_nodes, clip_nodes, current,
                                    polygon_pts, walks, stop_reason, arrivals>>
                ELSE LET mine == IF current_side = "subj" THEN subj_nodes ELSE clip_nodes
                         w == WalkFrom(mine[pos[1]], pos[2], pos[2], polygon_pts)
                         node == mine[pos[1]][w.j]
                         here == <<current_side, pos[1], w.j>>
                         nb == node.neighbor
                         there == <<OtherSide(current_side), nb[1], nb[2]>>
                         mark(g, side) ==
                            IF ~w.hit THEN g
                            ELSE LET g1 == IF side = current_side
                                           THEN [g EXCEPT ![pos[1]][w.j].visited = TRUE]
                                           ELSE g
                                 IN  IF nb # None /\ side # current_side
                                     THEN [g1 EXCEPT ![nb[1]][nb[2]].visited = TRUE]
                                     ELSE g1
                         cur2 == IF ~w.hit THEN current
                                 ELSE IF nb # None THEN there ELSE here
                         sn2 == mark(subj_nodes, "subj")
                         cn2 == mark(clip_nodes, "clip")
                         closes == Closes(w.pts, cur2, NodeAt(sn2, cn2, cur2).visited)
                     IN  /\ subj_nodes' = sn2
                         /\ clip_nodes' = cn2
                         /\ current' = cur2
                         /\ current_side' = IF w.hit THEN OtherSide(current_side)
                                            ELSE current_side
                         /\ walks' = walks + 1
                         /\ switches' = IF w.hit THEN switches + 1 ELSE switches
                         /\ arrivals' = IF w.hit THEN Append(arrivals, here) ELSE arrivals
                         /\ polygon_pts' = IF closes THEN ClosedPts(w.pts) ELSE w.pts
                         /\ pc' = IF closes THEN "clean" ELSE "trace"
                         /\ stop_reason' = IF closes THEN "closed" ELSE "none"
    /\ UNCHANGED <<subject, clipper, results, seed, raised>>

\* After the trace loop: clean the ring and keep it if it has 3 points
FinishRing ==
    /\ UNCHANGED guiVars
    /\ pc = "clean"
    /\ LET cleaned == CleanFrom(polygon_pts, 1, <<>>)
       IN  results' = IF Len(cleaned) >= 3 THEN Append(results, cleaned) ELSE results
    /\ seed' = seed + 1
    /\ pc' = "seed"
    /\ UNCHANGED <<subject, clipper, subj_nodes, clip_nodes, raised>>
    /\ UNCHANGED traceVars

\* The for loop is exhausted: return results
Return ==
    /\ UNCHANGED guiVars
    /\ pc = "seed"
    /\ seed > Len(InterNodes(subj_nodes))
    /\ pc' = "done"
    /\ UNCHANGED <<subject, clipper, subj_nodes, clip_nodes, results, seed, raised>>
    /\ UNCHANGED traceVars

Next ==
    \/ ReturnNone
    \/ InsertIntersections
    \/ Fallback
    \/ MarkEntryExit
    \/ SeedSkip
    \/ SeedStart
    \/ TraceIter
    \/ FinishRing
    \/ Return

Spec == Init /\ [][Next]_vars

\* ------------------------------------------------- the call as a function
\* The closing test of a trace that started at the node `start`
ClosesAt(pts, cur, cur_visited, start) ==
    \/ point_eq(pts[1], pts[Len(pts)])
    \/ (cur = start /\ cur_visited)

\* polygon_pts with the duplicated closing point removed
DropClosingPoint(pts) ==
    IF Len(pts) >= 2 /\ point_eq(pts[1], pts[Len(pts)])
    THEN SubSeq(pts, 1, Len(pts) - 1) ELSE pts

\* The outer `while True` of one trace, run to its end: the two graphs with
\* the visited flags it set, and polygon_pts as it leaves the loop.
\* current is <<graph, ring, index>>.
RECURSIVE TraceLoop(_, _, _, _, _, _, _)
TraceLoop(sn, cn, start, cur, side, pts, saf) ==
    IF saf + 1 > SafetyCap THEN [sn |-> sn, cn |-> cn, pts |-> pts]
    ELSE IF find_idx(cur, side) = None
    THEN TraceLoop(sn, cn, start, cur, OtherSide(side), pts, saf + 1)
    ELSE LET mine == IF side = "subj" THEN sn ELSE cn
             w == WalkFrom(mine[cur[2]], cur[3], cur[3], pts)
             nb == mine[cur[2]][w.j].neighbor
             sn1 == IF w.hit /\ side = "subj"
                    THEN [sn EXCEPT ![cur[2]][w.j].visited = TRUE] ELSE sn
             cn1 == IF w.hit /\ side = "clip"
                    THEN [cn EXCEPT ![cur[2]][w.j].visited = TRUE] ELSE cn
             sn2 == IF w.hit /\ nb # None /\ side = "clip"
                    THEN [sn1 EXCEPT ![nb[1]][nb[2]].visited = TRUE] ELSE sn1
             cn2 == IF w.hit /\ nb # None /\ side = "subj"
                    THEN [cn1 EXCEPT ![nb[1]][nb[2]].visited = TRUE] ELSE cn1
             cur2 == IF ~w.hit THEN cur
                     ELSE IF nb # None THEN <<OtherSide(side), nb[1], nb[2]>>
                     ELSE <<side, cur[2], w.j>>
             side2 == IF w.hit THEN OtherSide(side) ELSE side
             cur_visited == IF cur2[1] = "subj" THEN sn2[cur2[2]][cur2[3]].visited
                            ELSE cn2[cur2[2]][cur2[3]].visited
         IN  IF ClosesAt(w.pts, cur2, cur_visited, start)
             THEN [sn |-> sn2, cn |-> cn2, pts |-> DropClosingPoint(w.pts)]
             ELSE TraceLoop(sn2, cn2, start, cur2, side2, w.pts, saf + 1)

\* Mutant of TraceStart: a trace from an exit node starts at its neighbor
TraceStart_FromNeighbor(sn, pos) ==
    LET start_node == sn[pos[1]][pos[2]]
    IN  IF start_node.is_entry = "True"
        THEN [current |-> <<"subj", pos[1], pos[2]>>, current_side |-> "subj"]
        ELSE [current |-> <<"clip", start_node.neighbor[1], start_node.neighbor[2]>>,
              current_side |-> "clip"]

\* `current = start_node; current_side = 'subj' if current.is_entry else 'clip'`
TraceStart(sn, pos) ==
    [current |-> <<"subj", pos[1], pos[2]>>, current_side |-> StartSide(sn[pos[1]][pos[2]])]

\* `for start_node in inter_nodes`, from the k-th seed on: the result rings
RECURSIVE SeedLoop(_, _, _, _, _)
SeedLoop(sn, cn, inter_nodes, k, res) ==
    IF k > Len(inter_nodes) THEN res
    ELSE LET pos == inter_nodes[k]
             start_node == sn[pos[1]][pos[2]]
         IN  IF start_node.visited THEN SeedLoop(sn, cn, inter_nodes, k + 1, res)
             ELSE IF start_node.neighbor = None
             THEN SeedLoop([sn EXCEPT ![pos[1]][pos[2]].visited = TRUE], cn,
                           inter_nodes, k + 1, res)
             ELSE LET start == <<"subj", pos[1], pos[2]>>
                      first == TraceStart(sn, pos)
                      t == TraceLoop(sn, cn, start, first.current, first.current_side,
                                     <<start_node.pt>>, 0)
                      cleaned == CleanFrom(t.pts, 1, <<>>)
                  IN  SeedLoop(t.sn, t.cn, inter_nodes, k + 1,
                               IF Len(cleaned) >= 3 THEN Append(res, cleaned) ELSE res)

\* build_results_from_nodes(subj_nodes, clip_nodes): the rings it returns
build_results_from_nodes(sn, cn) == SeedLoop(sn, cn, InterNodes(sn), 1, <<>>)

\* The rings weiler_atherton_clip returns for two polygons, neither None
ClipRings(srings, crings) ==
    LET g == insert_intersections(srings, crings)
    IN  IF ~has_inter(g.subj) THEN FallbackResult(srings, crings)
        ELSE LET m == mark_entry_exit(g, crings)
             IN  build_results_from_nodes(m.subj, m.clip)

\* weiler_atherton_clip(subject, clipper) as a function of its arguments
weiler_atherton_clip(s, c) ==
    IF NoneCheck(s, c) THEN <<>> ELSE ClipRings(s.rings, c.rings)

\* ------------------------------------------------------------- the window
\* The most left clicks a behaviour of the window makes
MaxClicks == 9

\* The points the user clicks at: three points not on a line
ClickPts == {IntPt(0, 0), IntPt(2, 0), IntPt(0, 2)}

\* A PolygonModel as finish_building_polygon leaves it
PolygonModel(rings) == [rings |-> rings, in_operation_area |-> FALSE, is_clipper |-> FALSE]

\* list.reverse()
ListReverse(rr) == [i \in 1..Len(rr) |-> rr[Len(rr) + 1 - i]]

\* `if len(rr) > 1 and rr[0] == rr[-1]: rr = rr[:-1]`
DropRepeatedFirst(rr) ==
    IF Len(rr) > 1 /\ rr[1] = rr[Len(rr)] THEN SubSeq(rr, 1, Len(rr) - 1) ELSE rr

\* The body of finish_building_polygon's loop for ring number i (from 1)
NormalizeRing(i, r) ==
    LET rr == DropRepeatedFirst(r)
    IN  IF i = 1
        THEN (IF is_ccw(rr) THEN ListReverse(rr) ELSE rr)
        ELSE (IF ~is_ccw(rr) THEN ListReverse(rr) ELSE rr)

\* The indices of the polygons in the operation area
InOperationArea(polys) == {i \in 1..Len(polys) : polys[i].in_operation_area}

\* The initial state of the window: an empty canvas, no call under way
InitGui ==
    /\ subject = NonePoly
    /\ clipper = NonePoly
    /\ pc = "idle"
    /\ subj_nodes = <<>>
    /\ clip_nodes = <<>>
    /\ results = <<>>
    /\ seed = 0
    /\ current = None
    /\ current_side = "subj"
    /\ polygon_pts = <<>>
    /\ safety = 0
    /\ raised = FALSE
    /\ walks = 0
    /\ switches = 0
    /\ stop_reason = "none"
    /\ arrivals = <<>>
    /\ polygons = <<>>
    /\ current_rings = <<>>
    /\ current_ring_points = <<>>
    /\ clip_result_polygons = <<>>
    /\ handler = "none"
    /\ ret = "None"
    /\ clip_args = None
    /\ clicks = 0

\* mousePressEvent, left button: the point is appended to the open ring.
\* The user clicks at a point the open ring does not hold yet.
mousePressEvent ==
    /\ clicks < MaxClicks
    /\ \E pt \in ClickPts :
          /\ \A i \in 1..Len(current_ring_points) : current_ring_points[i] # pt
          /\ current_ring_points' = Append(current_ring_points, pt)
    /\ clicks' = clicks + 1
    /\ handler' = "mousePressEvent"
    /\ ret' = "None"
    /\ clip_args' = None
    /\ UNCHANGED <<polygons, current_rings, clip_result_polygons>>
    /\ UNCHANGED coreVars

\* close_current_ring (right button or the close button)
close_current_ring ==
    /\ IF Len(current_ring_points) < 3
       THEN /\ ret' = "False"
            /\ UNCHANGED <<current_rings, current_ring_points>>
       ELSE /\ current_rings' = Append(current_rings, DropRepeatedFirst(current_ring_points))
            /\ current_ring_points' = <<>>
            /\ ret' = "True"
    /\ handler' = "close_current_ring"
    /\ clip_args' = None
    /\ UNCHANGED <<polygons, clip_result_polygons, clicks>>
    /\ UNCHANGED coreVars

\* finish_building_polygon
finish_building_polygon ==
    /\ IF Len(current_rings) = 0
       THEN /\ ret' = "False"
            /\ UNCHANGED <<polygons, current_rings>>
       ELSE /\ polygons' = Append(polygons,
                    PolygonModel([i \in 1..Len(current_rings) |->
                                    NormalizeRing(i, current_rings[i])]))
            /\ current_rings' = <<>>
            /\ ret' = "True"
    /\ handler' = "finish_building_polygon"
    /\ clip_args' = None
    /\ UNCHANGED <<current_ring_points, clip_result_polygons, clicks>>
    /\ UNCHANGED coreVars

\* Mutant of EnterOperationArea: the polygon already there keeps its role
EnterOperationArea_KeepOther(polys, idx) ==
    LET operation_count == Cardinality(InOperationArea(polys))
    IN  [polys EXCEPT ![idx].in_operation_area = TRUE,
                      ![idx].is_clipper = (operation_count # 0)]

\* move_to_operation_area past its guard: the polygon enters, as the main
\* polygon if the area was empty, else as the clipper, and then the first
\* other polygon of the area is made the main polygon
EnterOperationArea(polys, idx) ==
    LET operation_count == Cardinality(InOperationArea(polys))
        others == InOperationArea(polys) \ {idx}
        first == CHOOSE o \in others : \A o2 \in others : o <= o2
        p1 == [polys EXCEPT ![idx].in_operation_area = TRUE,
                            ![idx].is_clipper = (operation_count # 0)]
    IN  IF operation_count # 0 /\ others # {}
        THEN [p1 EXCEPT ![first].is_clipper = FALSE] ELSE p1

\* MainWindow.move_to_operation_area(idx), for an item of the drawing list
move_to_operation_area ==
    /\ \E idx \in 1..Len(polygons) :
          /\ ~polygons[idx].in_operation_area
          /\ polygons' = IF Cardinality(InOperationArea(polygons)) >= 2
                         THEN polygons
                         ELSE EnterOperationArea(polygons, idx)
    /\ handler' = "move_to_operation_area"
    /\ ret' = "None"
    /\ clip_args' = None
    /\ UNCHANGED <<current_rings, current_ring_points, clip_result_polygons, clicks>>
    /\ UNCHANGED coreVars

\* MainWindow.move_to_drawing_area(idx), for an item of the operation list
move_to_drawing_area ==
    /\ \E idx \in 1..Len(polygons) :
          /\ polygons[idx].in_operation_area
          /\ polygons' = [polygons EXCEPT ![idx].in_operation_area = FALSE,
                                          ![idx].is_clipper = FALSE]
    /\ handler' = "move_to_drawing_area"
    /\ ret' = "None"
    /\ clip_args' = None
    /\ UNCHANGED <<current_rings, current_ring_points, clip_result_polygons, clicks>>
    /\ UNCHANGED coreVars

\* The index of the last polygon of the operation area with the given role,
\* or 0 for None
LastInArea(polys, clipper_role) ==
    LET cand == {i \in InOperationArea(polys) : polys[i].is_clipper = clipper_role}
    IN  IF cand = {} THEN 0 ELSE CHOOSE i \in cand : \A k \in cand : k <= i

\* `if main_poly is None or clip_poly is None`
ClipOperandsMissing(main_poly, clip_poly) == main_poly = 0 \/ clip_poly = 0

\* perform_clip_and_show
perform_clip_and_show ==
    /\ LET main_poly == LastInArea(polygons, FALSE)
           clip_poly == LastInArea(polygons, TRUE)
       IN  IF ClipOperandsMissing(main_poly, clip_poly)
           THEN /\ ret' = "raised"
                /\ clip_args' = None
                /\ UNCHANGED clip_result_polygons
           ELSE \E result_rings \in
                    {weiler_atherton_clip(
                        IF main_poly = 0 THEN NonePoly ELSE Poly(polygons[main_poly].rings),
                        IF clip_poly = 0 THEN NonePoly ELSE Poly(polygons[clip_poly].rings))} :
                    /\ clip_result_polygons' =
                          IF Len(result_rings) > 0 THEN <<[rings |-> result_rings]>> ELSE <<>>
                    /\ clip_args' = <<main_poly, clip_poly>>
                    /\ ret' = "None"
    /\ handler' = "perform_clip_and_show"
    /\ UNCHANGED <<polygons, current_rings, current_ring_points, clicks>>
    /\ UNCHANGED coreVars

\* clear_all
clear_all ==
    /\ polygons' = <<>>
    /\ current_rings' = <<>>
    /\ current_ring_points' = <<>>
    /\ clip_result_polygons' = <<>>
    /\ handler' = "clear_all"
    /\ ret' = "None"
    /\ clip_args' = None
    /\ UNCHANGED clicks
    /\ UNCHANGED coreVars

NextGui ==
    \/ mousePressEvent
    \/ close_current_ring
    \/ finish_building_polygon
    \/ move_to_operation_area
    \/ move_to_drawing_area
    \/ perform_clip_and_show
    \/ clear_all

SpecGui == InitGui /\ [][NextGui]_vars

\* ===================================================================== claims
\* Helpers of the claims' statements (not part of the program).

IsRectPoly(p) == ~p.none /\ Len(p.rings) = 1 /\ p.rings[1] \in Rects

\* For rectangles a = [a1,a2] and b = [b1,b2] on one axis: the intervals
\* overlap partially, each holding exactly one end of the other.
Staggered(a1, a2, b1, b2) == (a1 < b1 /\ b1 < a2 /\ a2 < b2) \/ (b1 < a1 /\ a1 < b2 /\ b2 < a2)

\* Exactly one corner of each rectangle lies strictly inside the other and
\* the boundaries cross in two points that are not vertices.
CornerOverlap(s, c) ==
    /\ IsRectPoly(s)
    /\ IsRectPoly(c)
    /\ LET a == s.rings[1]
           b == c.rings[1]
       IN  /\ Staggered(a[1][1], a[3][1], b[1][1], b[3][1])
           /\ Staggered(a[1][2], a[3][2], b[1][2], b[3][2])

\* The overlap rectangle of two rectangles
OverlapRect(a, b) ==
    Rect(Max2(a[1][1], b[1][1]), Max2(a[1][2], b[1][2]),
         Min2(a[3][1], b[3][1]), Min2(a[3][2], b[3][2]))

Rotation(ring, k) == [i \in 1..Len(ring) |-> ring[((i - 1 + k) % Len(ring)) + 1]]

Reversed(ring) == [i \in 1..Len(ring) |-> ring[Len(ring) + 1 - i]]

\* The same cyclic sequence of points, from any starting point, either way
SameRing(r1, r2) ==
    /\ Len(r1) = Len(r2)
    /\ \E k \in 0..(Len(r2) - 1) :
          \/ r1 = Rotation(r2, k)
          \/ r1 = Rotation(Reversed(r2), k)

\* C1: for two axis-aligned rectangles that overlap at a corner (in either
\* role), weiler_atherton_clip returns exactly one ring, the overlap
\* rectangle, up to its starting point.
C1_CornerOverlapClip ==
    (pc = "done" /\ CornerOverlap(subject, clipper)) =>
        /\ Len(results) = 1
        /\ SameRing(results[1], OverlapRect(subject.rings[1], clipper.rings[1]))

\* A point of the plane lies in a ring, boundary included.  Every ring of
\* the model's inputs is convex or degenerate (a point, a segment), so the
\* point is in the ring iff it is on one side of all edges, or on all of
\* them, and within the ring's bounding box.
InRingByGeometry(p, ring) ==
    LET n == Len(ring)
        e(i) == orientNum(ring[i], ring[(i % n) + 1], p)
    IN  /\ n > 0
        /\ (\A i \in 1..n : e(i) >= 0) \/ (\A i \in 1..n : e(i) <= 0)
        /\ \E i \in 1..n : ring[i][1] * p[3] <= p[1]
        /\ \E i \in 1..n : ring[i][1] * p[3] >= p[1]
        /\ \E i \in 1..n : ring[i][2] * p[3] <= p[2]
        /\ \E i \in 1..n : ring[i][2] * p[3] >= p[2]

\* The first outer-ring vertex of polygon a exists and is inside polygon b:
\* in b's outer ring and in none of b's holes.
FirstVertexInside(a, b) ==
    /\ Len(a.rings) > 0
    /\ Len(a.rings[1]) > 0
    /\ Len(b.rings) > 0
    /\ InRingByGeometry(a.rings[1][1], b.rings[1])
    /\ \A h \in 2..Len(b.rings) : ~InRingByGeometry(a.rings[1][1], b.rings[h])

NoIntersectionCase == pc = "done" /\ ~NoneCheck(subject, clipper) /\ ~has_inter(subj_nodes)

\* C2: with no intersection node on the subject graph the result is decided
\* by containment alone: the subject's rings if its first vertex is inside
\* the clipper, else the clipper's rings if its first vertex is inside the
\* subject, else the empty list.
C2_ContainmentFallback ==
    NoIntersectionCase =>
        results = IF FirstVertexInside(subject, clipper) THEN subject.rings
                  ELSE IF FirstVertexInside(clipper, subject) THEN clipper.rings
                  ELSE <<>>

\* C2 witness: each of the three outcomes has happened for two polygons
\* with rings: here the clipper was returned.
C2_Witness ==
    /\ NoIntersectionCase
    /\ ~FirstVertexInside(subject, clipper)
    /\ FirstVertexInside(clipper, subject)
    /\ results = clipper.rings
    /\ results # subject.rings

\* C3: no ring of the returned list has fewer than 3 points.
C3_MinRingSize ==
    pc = "done" => \A k \in 1..Len(results) : Len(results[k]) >= 3

\* Every ring of the polygon has at least 3 points, no two of them eps-equal
WellFormed(p) ==
    /\ ~p.none
    /\ \A r \in 1..Len(p.rings) :
          /\ Len(p.rings[r]) >= 3
          /\ \A i \in 1..Len(p.rings[r]) : \A j \in 1..Len(p.rings[r]) :
                i # j => ~point_eq(p.rings[r][i], p.rings[r][j])

\* Read cyclically, no two consecutive points of the ring are eps-equal
NoCyclicRepeat(ring) ==
    \A i \in 1..Len(ring) : ~point_eq(ring[i], ring[(i % Len(ring)) + 1])

\* C4: for polygons whose rings have at least 3 pairwise distinct points,
\* no returned ring has two eps-equal consecutive points, the pair (last,
\* first) included.
C4_NoConsecutiveRepeat ==
    (pc = "done" /\ WellFormed(subject) /\ WellFormed(clipper)) =>
        \A k \in 1..Len(results) : NoCyclicRepeat(results[k])

\* C4 witness: a traced ring was returned for well-formed polygons, and its
\* trace passed an original vertex coinciding with an intersection node
\* (a point the walk had to skip).
C4_Witness ==
    /\ pc = "done"
    /\ WellFormed(subject)
    /\ WellFormed(clipper)
    /\ has_inter(subj_nodes)
    /\ Len(results) > 0
    /\ \E r \in 1..Len(subj_nodes) : \E i \in 1..Len(subj_nodes[r]) :
          /\ subj_nodes[r][i].is_inter
          /\ \E j \in 1..Len(subj_nodes[r]) :
                ~subj_nodes[r][j].is_inter /\ subj_nodes[r][j].pt = subj_nodes[r][i].pt

\* C5: weiler_atherton_clip never raises, whatever the operands (None, no
\* rings, rings of 0, 1 or 2 points, repeated points): the call is at one of
\* its steps or has returned, and with a None operand it returns the empty
\* list.
C5_NeverRaises ==
    /\ ~raised
    /\ pc \in {"call", "inserted", "seed", "trace", "clean", "done"}
    /\ (pc = "done" /\ (subject.none \/ clipper.none)) => results = <<>>

\* C5 witness: a call with a None clipper and a subject with a one-point
\* ring has returned.
C5_Witness ==
    /\ pc = "done"
    /\ clipper.none
    /\ ~subject.none
    /\ Len(subject.rings) = 1
    /\ Len(subject.rings[1]) = 1

NumInter(nodes) == Len(InterNodes(nodes))

\* C6: every trace leaves its loop by the closing condition, after at most
\* as many side switches (and loop iterations) as there are intersection
\* nodes in the two graphs; the safety cap never ends a trace.
C6_TraceTerminates ==
    /\ stop_reason # "safety"
    /\ pc = "clean" => stop_reason = "closed"
    /\ pc \in {"trace", "clean"} =>
          /\ switches <= NumInter(subj_nodes) + NumInter(clip_nodes)
          /\ safety <= NumInter(subj_nodes) + NumInter(clip_nodes)

\* C6 witness: a trace closed after six side switches.
C6_Witness ==
    /\ pc = "clean"
    /\ stop_reason = "closed"
    /\ switches >= 6

\* mark_entry_exit has run on the graphs of this call
AfterMark == pc \in {"seed", "trace", "clean"} \/ (pc = "done" /\ has_inter(subj_nodes))

\* Every intersection node of graph `mine` is classified, and its flag is
\* the complement of its cross-linked node's flag in graph `other`.
ClassifiedGraph(mine, other) ==
    \A r \in 1..Len(mine) : \A i \in 1..Len(mine[r]) :
        mine[r][i].is_inter =>
            /\ mine[r][i].is_entry # "None"
            /\ LET nb == mine[r][i].neighbor
               IN  nb # None =>
                      /\ other[nb[1]][nb[2]].is_entry # "None"
                      /\ other[nb[1]][nb[2]].is_entry # mine[r][i].is_entry

Classified == ClassifiedGraph(subj_nodes, clip_nodes) /\ ClassifiedGraph(clip_nodes, subj_nodes)

\* C7 as claimed: after mark_entry_exit every intersection node of either
\* graph has is_entry set, complementary across every cross-link.
C7_AllClassified == AfterMark => Classified

\* No subject ring that holds an intersection node has all of its nodes at
\* one point (eps-equal).
HostRingsSpread ==
    \A r \in 1..Len(subj_nodes) :
        (\E i \in 1..Len(subj_nodes[r]) : subj_nodes[r][i].is_inter) =>
            \E i \in 1..Len(subj_nodes[r]) : \E j \in 1..Len(subj_nodes[r]) :
                ~point_eq(subj_nodes[r][i].pt, subj_nodes[r][j].pt)

\* C7 amended: provided every subject ring that holds an intersection node
\* has two nodes at different points, after mark_entry_exit every
\* intersection node of either graph has is_entry set, complementary
\* across every cross-link.
C7_ClassifiedUnlessCoincident == (AfterMark /\ HostRingsSpread) => Classified

\* C7 witness: classification gave both an entry and an exit on the subject
\* graph of such a call.
C7_Witness ==
    /\ AfterMark
    /\ HostRingsSpread
    /\ \E r \in 1..Len(subj_nodes) : \E i \in 1..Len(subj_nodes[r]) :
          subj_nodes[r][i].is_inter /\ subj_nodes[r][i].is_entry = "True"
    /\ \E r \in 1..Len(subj_nodes) : \E i \in 1..Len(subj_nodes[r]) :
          subj_nodes[r][i].is_inter /\ subj_nodes[r][i].is_entry = "False"

\* The squared distance from the integer point v to p is at most that to q
NotFarther(v, p, q) ==
    LET px == p[1] - v[1] * p[3]
        py == p[2] - v[2] * p[3]
        qx == q[1] - v[1] * q[3]
        qy == q[2] - v[2] * q[3]
    IN  (px * px + py * py) * (q[3] * q[3]) <= (qx * qx + qy * qy) * (p[3] * p[3])

\* The index of the original vertex before node k of the list (cyclically)
\* and of the one after it; k itself when the list has no original vertex.
RECURSIVE VertexBefore(_, _, _)
VertexBefore(nodes, k, steps) ==
    IF steps > Len(nodes) THEN k
    ELSE LET j == ((k - 1 - steps + Len(nodes)) % Len(nodes)) + 1
         IN  IF ~nodes[j].is_inter THEN j ELSE VertexBefore(nodes, k, steps + 1)

RECURSIVE VertexAfter(_, _, _)
VertexAfter(nodes, k, steps) ==
    IF steps > Len(nodes) THEN k
    ELSE LET j == ((k - 1 + steps) % Len(nodes)) + 1
         IN  IF ~nodes[j].is_inter THEN j ELSE VertexAfter(nodes, k, steps + 1)

\* The node list of one ring is in travel order
TravelOrder(nodes) ==
    \A k \in 1..Len(nodes) :
        nodes[k].is_inter =>
            LET v == nodes[VertexBefore(nodes, k, 1)].pt
                w == nodes[VertexAfter(nodes, k, 1)].pt
            IN  /\ on_segment(v, w, nodes[k].pt)
                /\ (k < Len(nodes) /\ nodes[k + 1].is_inter) =>
                        NotFarther(v, nodes[k].pt, nodes[k + 1].pt)

\* C8: after insert_intersections every ring's node list of both graphs is
\* in travel order: each intersection node lies on the edge between the
\* original vertices around it, and the intersection nodes of one edge come
\* in non-decreasing distance from the edge's start.
C8_TravelOrder ==
    pc = "inserted" =>
        /\ \A r \in 1..Len(subj_nodes) : TravelOrder(subj_nodes[r])
        /\ \A r \in 1..Len(clip_nodes) : TravelOrder(clip_nodes[r])

\* The cross-links of graph `mine` into graph `other` pair the nodes off
PairedGraph(mine, other) ==
    LET inter == {pos \in UNION {{<<r, i>> : i \in 1..Len(mine[r])} : r \in 1..Len(mine)} :
                     mine[pos[1]][pos[2]].is_inter}
    IN  /\ \A pos \in inter :
              LET n == mine[pos[1]][pos[2]]
                  nb == n.neighbor
              IN  /\ nb # None
                  /\ nb[1] \in 1..Len(other)
                  /\ nb[2] \in 1..Len(other[nb[1]])
                  /\ other[nb[1]][nb[2]].is_inter
                  /\ other[nb[1]][nb[2]].neighbor = pos
                  /\ point_eq(other[nb[1]][nb[2]].pt, n.pt)
        /\ \A p1 \in inter : \A p2 \in inter :
              p1 # p2 =>
                  /\ mine[p1[1]][p1[2]].neighbor # mine[p2[1]][p2[2]].neighbor
                  /\ ~point_eq(mine[p1[1]][p1[2]].pt, mine[p2[1]][p2[2]].pt)

GraphsBuilt == pc \in {"inserted", "seed", "trace", "clean"} \/ (pc = "done" /\ ~NoneCheck(subject, clipper))

\* C9: after insert_intersections the cross-link is a symmetric one-to-one
\* pairing of the two graphs' intersection nodes: every intersection node
\* has a neighbor, an intersection node of the other graph at an eps-equal
\* point whose neighbor it is, and no two intersection nodes of one graph
\* share a neighbor or a point.
C9_CrossLinkPairing ==
    GraphsBuilt => PairedGraph(subj_nodes, clip_nodes) /\ PairedGraph(clip_nodes, subj_nodes)

\* C9 witness: a graph with four or more intersection nodes, one of them at
\* a point that is not a grid point.
C9_Witness ==
    /\ pc = "inserted"
    /\ NumInter(subj_nodes) >= 4
    /\ \E r \in 1..Len(clip_nodes) : \E i \in 1..Len(clip_nodes[r]) :
          clip_nodes[r][i].is_inter /\ clip_nodes[r][i].pt[3] > 1

\* C10: the ring a trace walks first depends on the seed's classification:
\* after the seed's coordinate come the nodes that follow the seed on the
\* subject ring if the seed is an entry, and the nodes that follow the
\* seed's cross-linked node on the clipper ring if it is an exit.
C10_FirstWalkSide ==
    (pc = "trace" /\ walks = 1) =>
        LET start_node == NodeAt(subj_nodes, clip_nodes, StartRef)
            nb == start_node.neighbor
        IN  polygon_pts =
                IF start_node.is_entry = "True"
                THEN WalkFrom(subj_nodes[StartRef[2]], StartRef[3], StartRef[3],
                              <<start_node.pt>>).pts
                ELSE WalkFrom(clip_nodes[nb[1]], nb[2], nb[2], <<start_node.pt>>).pts

\* ---------------------------------------------------------------------------
\* No node occurs twice among the nodes at which walks ended
NoRepeatedArrival ==
    \A i \in 1..Len(arrivals) : \A j \in 1..Len(arrivals) : i # j => arrivals[i] # arrivals[j]

\* On return every intersection node of the subject graph is visited
AllSubjectVisitedOnReturn ==
    pc = "done" =>
        \A r \in 1..Len(subj_nodes) : \A i \in 1..Len(subj_nodes[r]) :
            subj_nodes[r][i].is_inter => subj_nodes[r][i].visited

\* A step never turns a visited flag back to False
VisitedKept ==
    /\ \A r \in 1..Len(subj_nodes) : \A i \in 1..Len(subj_nodes[r]) :
            subj_nodes[r][i].visited => subj_nodes'[r][i].visited
    /\ \A r \in 1..Len(clip_nodes) : \A i \in 1..Len(clip_nodes[r]) :
            clip_nodes[r][i].visited => clip_nodes'[r][i].visited

\* A trace never starts at a visited node
SeedUnvisited ==
    (pc = "seed" /\ pc' = "trace") => ~NodeAt(subj_nodes, clip_nodes, StartRef).visited

\* C11: over one run of build_results_from_nodes every intersection node is
\* reached as a transition point (a walk arrives at it and switches sides) at
\* most once, a visited node is never chosen as a seed, no visited flag is
\* reset, and on return every intersection node of the subject graph is
\* visited.
C11_ConsumedOnce ==
    /\ [](NoRepeatedArrival /\ AllSubjectVisitedOnReturn)
    /\ [][VisitedKept /\ SeedUnvisited]_vars

\* ---------------------------------------------------------------------------
\* No intersection node lies in the node list of a ring with fewer than 3
\* points, and none has such a ring as the ring of its host edge
ShortRingsBare(rings, nodes) ==
    \A r \in 1..Len(nodes) : \A i \in 1..Len(nodes[r]) :
        nodes[r][i].is_inter =>
            /\ Len(rings[r]) >= 3
            /\ Len(rings[nodes[r][i].edge[1]]) >= 3

\* C12: a ring with fewer than 3 points (0, 1 or 2 points) of either polygon
\* contributes no edges to intersection testing: after insert_intersections
\* no intersection node has such a ring as its host and such a ring's node
\* list holds no intersection node.
C12_ShortRingsNoEdges ==
    GraphsBuilt =>
        /\ ShortRingsBare(subject.rings, subj_nodes)
        /\ ShortRingsBare(clipper.rings, clip_nodes)

\* ---------------------------------------------------------------------------
\* The call run step by step returns what the call as a function returns
StepsAgreeWithFunction ==
    pc = "done" => results = weiler_atherton_clip(subject, clipper)

\* ---------------------------------------------------------------------------
\* A ring of non-zero area is wound as its place in the polygon asks: the
\* first ring satisfies is_ccw, a later ring does not
WoundAsPlaced(rings, i) ==
    signed_area2(rings[i]) # 0 => (is_ccw(rings[i]) <=> (i = 1))

\* C13: every polygon finish_building_polygon has appended is orientation-
\* normalized as the core expects, measured with is_ccw: its first ring
\* (outer) is counter-clockwise and every later ring (hole) is clockwise,
\* for every ring of non-zero area, whichever way the user drew it.
C13_OrientationNormalized ==
    \A p \in 1..Len(polygons) : \A i \in 1..Len(polygons[p].rings) :
        WoundAsPlaced(polygons[p].rings, i)

\* ---------------------------------------------------------------------------
\* The most intersection nodes, over the two graphs, whose flags are varied
\* in every way (the nodes come in cross-linked pairs, one in each graph)
MaxFlaggedNodes == 4

\* The values of Node.is_entry
FlagValues == {"True", "False", "None"}

\* The positions of the intersection nodes of a graph
InterPositions(nodes) ==
    UNION {{<<r, i>> : i \in {k \in 1..Len(nodes[r]) : nodes[r][k].is_inter}}
              : r \in 1..Len(nodes)}

\* The graph with the is_entry flags of its intersection nodes set by f
Reflagged(nodes, f) ==
    [r \in 1..Len(nodes) |->
        [i \in 1..Len(nodes[r]) |->
            IF nodes[r][i].is_inter
            THEN [nodes[r][i] EXCEPT !.is_entry = f[<<r, i>>]]
            ELSE nodes[r][i]]]

\* The graphs are classified and no trace has started
BeforeTracing == pc = "seed" /\ seed = 1

\* C14: the rings build_results_from_nodes returns do not depend on the
\* is_entry flags: on a copy of the cross-linked graphs that differs only in
\* the flags of the intersection nodes (any of True, False, None on each)
\* it returns the same rings in the same order.
C14_FlagsIgnored ==
    (BeforeTracing /\ NumInter(subj_nodes) + NumInter(clip_nodes) <= MaxFlaggedNodes) =>
        \E ref \in {build_results_from_nodes(subj_nodes, clip_nodes)} :
            \A fs \in [InterPositions(subj_nodes) -> FlagValues] :
                \A fc \in [InterPositions(clip_nodes) -> FlagValues] :
                    build_results_from_nodes(Reflagged(subj_nodes, fs),
                                             Reflagged(clip_nodes, fc)) = ref

\* A classified graph whose flags are all varied: its first seed is an exit
\* node, another intersection node is an entry node, and a ring is returned
C14_Witness ==
    /\ BeforeTracing
    /\ NumInter(subj_nodes) + NumInter(clip_nodes) = MaxFlaggedNodes
    /\ NodeAt(subj_nodes, clip_nodes, StartRef).is_entry = "False"
    /\ \E pos \in InterPositions(subj_nodes) : subj_nodes[pos[1]][pos[2]].is_entry = "True"
    /\ Len(build_results_from_nodes(subj_nodes, clip_nodes)) > 0

\* ---------------------------------------------------------------------------
\* Integer point p lies on the closed segment a-b (exactly)
LiesOn(a, b, p) ==
    /\ orientNum(a, b, p) = 0
    /\ Min2(a[1], b[1]) <= p[1] /\ p[1] <= Max2(a[1], b[1])
    /\ Min2(a[2], b[2]) <= p[2] /\ p[2] <= Max2(a[2], b[2])

\* No vertex of ring r1 lies on the boundary of ring r2
NoVertexOnBoundary(r1, r2) ==
    \A i \in 1..Len(r1) : \A j \in 1..Len(r2) :
        ~LiesOn(r2[j], r2[(j % Len(r2)) + 1], r1[i])

\* Edges a-b and c-d cross at a point interior to both
CrossProperly(a, b, c, d) ==
    /\ orientNum(a, b, c) * orientNum(a, b, d) < 0
    /\ orientNum(c, d, a) * orientNum(c, d, b) < 0

\* Two hole-free simple polygons (a rectangle or a triangle each) whose
\* boundaries meet, and only at proper crossings: no vertex of one on the
\* boundary of the other, hence no shared vertex and no collinear overlap
ProperlyCrossing(a, b) ==
    /\ ~a.none /\ ~b.none
    /\ a \in RectPolys \cup TriPolys \cup MirrorTriPolys
    /\ b \in RectPolys \cup TriPolys \cup MirrorTriPolys
    /\ NoVertexOnBoundary(a.rings[1], b.rings[1])
    /\ NoVertexOnBoundary(b.rings[1], a.rings[1])
    /\ \E i \in 1..Len(a.rings[1]) : \E j \in 1..Len(b.rings[1]) :
          CrossProperly(a.rings[1][i], a.rings[1][(i % Len(a.rings[1])) + 1],
                        b.rings[1][j], b.rings[1][(j % Len(b.rings[1])) + 1])

\* Two results with the same rings up to the starting point of each ring
SameRingsUpToRotation(res1, res2) ==
    /\ Len(res1) = Len(res2)
    /\ \A i \in 1..Len(res1) : \E j \in 1..Len(res2) :
          /\ Len(res1[i]) = Len(res2[j])
          /\ \E k \in 0..(Len(res2[j]) - 1) : res1[i] = Rotation(res2[j], k)
    /\ \A j \in 1..Len(res2) : \E i \in 1..Len(res1) :
          /\ Len(res1[i]) = Len(res2[j])
          /\ \E k \in 0..(Len(res2[j]) - 1) : res1[i] = Rotation(res2[j], k)

\* C15: intersection is symmetric in its operands: for hole-free simple
\* polygons A and B with integer vertices whose boundaries cross only at
\* proper crossings, weiler_atherton_clip(A, B) and weiler_atherton_clip(B, A)
\* return the same number of rings, each ring of one equal to a ring of the
\* other up to rotation of its starting point.
C15_OperandSymmetry ==
    (pc = "done" /\ ProperlyCrossing(subject, clipper)) =>
        SameRingsUpToRotation(results, weiler_atherton_clip(clipper, subject))

\* ---------------------------------------------------------------------------
\* The polygons of the operation area with the given role
AreaRole(clipper_role) ==
    {i \in InOperationArea(polygons) : polygons[i].is_clipper = clipper_role}

\* At most two polygons are in the operation area; two of them are one main
\* polygon and one clipper; a polygon outside is no clipper
OperationAreaRoles ==
    /\ Cardinality(InOperationArea(polygons)) <= 2
    /\ Cardinality(InOperationArea(polygons)) = 2 =>
          Cardinality(AreaRole(TRUE)) = 1 /\ Cardinality(AreaRole(FALSE)) = 1
    /\ \A i \in 1..Len(polygons) :
          ~polygons[i].in_operation_area => ~polygons[i].is_clipper

\* perform_clip_and_show has called weiler_atherton_clip exactly when the
\* area holds one main polygon and one clipper, with these two as arguments;
\* otherwise it has raised
ClipCalledOnOnePair ==
    handler = "perform_clip_and_show" =>
        IF Cardinality(AreaRole(FALSE)) = 1 /\ Cardinality(AreaRole(TRUE)) = 1
        THEN /\ ret = "None"
             /\ clip_args # None
             /\ {clip_args[1]} = AreaRole(FALSE)
             /\ {clip_args[2]} = AreaRole(TRUE)
        ELSE ret = "raised" /\ clip_args = None

\* A perform_clip_and_show that raises leaves clip_result_polygons alone
RaiseKeepsResult ==
    (handler' = "perform_clip_and_show" /\ ret' = "raised") =>
        clip_result_polygons' = clip_result_polygons

\* C16: after any sequence of finish_building_polygon,
\* move_to_operation_area, move_to_drawing_area and clear_all, at most two
\* polygons are in the operation area; two of them are one clipper and one
\* non-clipper; every polygon outside it has is_clipper False; and
\* perform_clip_and_show calls weiler_atherton_clip only when the area holds
\* one non-clipper and one clipper, otherwise it raises and leaves
\* clip_result_polygons unchanged.
C16_OperationArea ==
    /\ [](OperationAreaRoles /\ ClipCalledOnOnePair)
    /\ [][RaiseKeepsResult]_vars

\* A clip was made with three polygons on the canvas, two of them in the
\* operation area, and it returned rings
C16_Witness ==
    /\ handler = "perform_clip_and_show"
    /\ ret = "None"
    /\ Len(polygons) = 3
    /\ Cardinality(InOperationArea(polygons)) = 2
    /\ Len(clip_result_polygons) > 0

=============================================================================
